---- MODULE Spec2Model ----
(***************************************************************************)
(* GPD fan driver (drivers/hwmon/gpd-fan.c): the EC register protocol      *)
(* behind one mutex, the per-board RPM / PWM / pwm_enable handlers, and    *)
(* the jiffies-based read caches, with several callers of the hwmon        *)
(* callbacks running concurrently.                                         *)
(*                                                                         *)
(* Granularity.  Every access to shared memory (gpd_driver_priv, jiffies,  *)
(* the mutex, the EC) is a step of its own; computation on a caller's      *)
(* locals is folded into the next shared access of that caller.            *)
(*                                                                         *)
(* The specifications share the state.  SpecPort is the port level: one   *)
(* register access is taking the mutex (or being interrupted while         *)
(* waiting), selecting the high offset byte, selecting the low offset      *)
(* byte, transferring the data byte and releasing the mutex, each a step.  *)
(* Spec is the driver level: the callbacks of the hwmon interface, with    *)
(* the three port steps made under the mutex taken as one step.            *)
(* SpecReads is the driver level with fan1_input and pwm1 read only, more  *)
(* often; SpecScale is gpd_generic_write_pwm called with every duty;       *)
(* SpecPwmRead is win_max_2 reading every byte its PWM register can hold;  *)
(* SpecLoad starts at gpd_fan_init, before a board is selected.            *)
(***************************************************************************)
EXTENDS Integers, FiniteSets, Sequences, TLC

(* ------------------------------ bounds -------------------------------- *)
\* jiffies per second (the refresh interval of both caches)
HZ == 1
\* the clock stops ticking here
MaxJiffies == 1
\* callbacks invoked in one behaviour
MaxCalls == 2
\* callbacks invoked in a run of the cached reads alone
MaxReads == 4

\* the threads calling into the driver
Callers == {1, 2}

(* ------------------------- program constants -------------------------- *)
EINTR == 4
EINVAL == 22
EOPNOTSUPP == 95

DISABLE == 0
MANUAL == 1
AUTOMATIC == 2

\* fixed EC registers used by the RPM paths
PWMCTR_FIRST == 6209      \* 0x1841
PWMCTR_LAST == 6211       \* 0x1843
WIN4_PWMCTR_VAL == 127    \* 0x7F
WM2_PWMCTR_VAL == 184     \* 0xB8
CHIP_ID_REG == 8192       \* 0x2000
CHIP_ID_VAL == 85         \* 0x55
CHIP_VER_REG == 4192      \* 0x1060
CHIP_VER_BIT == 128       \* 0x80

gpd_win_mini_quirk ==
    [ board_name |-> "win_mini", board |-> "win_mini",
      addr_port |-> 78, data_port |-> 79,
      manual_control_enable |-> 1146, rpm_read |-> 1144,
      pwm_write |-> 1146, pwm_max |-> 244 ]

gpd_win4_quirk ==
    [ board_name |-> "win4", board |-> "win4_6800u",
      addr_port |-> 46, data_port |-> 47,
      manual_control_enable |-> 49937, rpm_read |-> 51328,
      pwm_write |-> 49937, pwm_max |-> 127 ]

gpd_wm2_quirk ==
    [ board_name |-> "wm2", board |-> "win_max_2",
      addr_port |-> 78, data_port |-> 79,
      manual_control_enable |-> 629, rpm_read |-> 536,
      pwm_write |-> 6153, pwm_max |-> 184 ]

gpd_module_quirks == {gpd_win_mini_quirk, gpd_win4_quirk, gpd_wm2_quirk}

(* ------------------------- inputs and hardware ------------------------ *)
\* values a caller writes to pwm1 (a long: below, inside and above 0..255)
PwmInputs == {-1, 100, 256}
\* values a caller writes to pwm1_enable
EnableInputs == {-1, 0, 1, 2, 3}
\* fan speeds the EC reports in its two RPM bytes
RpmValues == {0, 258}
\* what an uninitialised u8 on the stack may hold
UninitBytes == {0, 255}

\* the EC RAM cells the driver touches, over all boards
EcOffsets ==
    UNION { {q.manual_control_enable, q.rpm_read, q.rpm_read + 1, q.pwm_write}
            : q \in gpd_module_quirks }
    \cup (PWMCTR_FIRST..PWMCTR_LAST) \cup {CHIP_ID_REG, CHIP_VER_REG}

VARIABLES
    gpd_driver_priv,   \* the driver's state record (lines 45-56)
    jiffies,           \* the kernel clock
    gpd_fan_lock,      \* holder of the mutex, 0 when free
    ecram,             \* EC RAM: offset -> byte
    ecHigh, ecLow,     \* the EC's address latch, set through the port pair
    proc,              \* each caller's frame
    attached,          \* the platform device is bound
    calls              \* callbacks still to be invoked

vars == <<gpd_driver_priv, jiffies, gpd_fan_lock, ecram, ecHigh, ecLow,
          proc, attached, calls>>

\* what a step of a callback between its shared accesses leaves alone
world == <<jiffies, ecram, ecHigh, ecLow, attached, calls>>

quirk == gpd_driver_priv.quirk

\* a caller outside the driver.  A frame holds the callback (op, arg), its
\* label (pc), its position in a register access (e: "lock", "hi", "lo",
\* "data" or "none", with isw, off, wv), the locals ret, rd (the byte read)
\* and high, and the returned err and out; it also records the mode the
\* callback acted on (en), whether it got to the ports (io), and for a cached
\* read the jiffy of its age test (at) and the timestamp it tested (seen)
Idle ==
    [ op |-> "idle", pc |-> "idle", arg |-> 0, en |-> AUTOMATIC,
      e |-> "none", isw |-> FALSE, off |-> 0, wv |-> 0, ret |-> 0, rd |-> 0,
      high |-> 0, io |-> FALSE, err |-> 0, out |-> 0, at |-> 0, seen |-> 0 ]

(* ----------------------------- arithmetic ----------------------------- *)
\* time_after(a, b): (long)(b - a) < 0
time_after(a, b) == b - a < 0

\* (u16)high << 8 | low
Rpm16(high, low) == high * 256 + low

\* v | 0x80 on a byte
OrBit80(v) == IF v >= CHIP_VER_BIT THEN v ELSE v + CHIP_VER_BIT

\* the comparison made on signed values
in_range_signed(val, start, len) == val - start < len

\* in_range(val, start, len): (unsigned)(val - start) < len, which a val
\* below start fails by wrapping around
in_range(val, start, len) == val >= start /\ val - start < len

\* clamp_val(val, lo, hi)
clamp_val(val, lo, hi) == IF val < lo THEN lo ELSE IF val > hi THEN hi ELSE val

\* the scaling without the + 1
GenericPwmActualNoOffset(pwm_max, val) == ((val * (pwm_max - 1)) \div 255) % 256

\* the scaling without the slot kept for 0
GenericPwmActualFullRange(pwm_max, val) == ((val * pwm_max) \div 255 + 1) % 256

\* u8 actual = val * (quirk->pwm_max - 1) / 255 + 1
GenericPwmActual(pwm_max, val) == ((val * (pwm_max - 1)) \div 255 + 1) % 256

\* (s16)(var * 255 / quirk->pwm_max)
Wm2PwmScaled(pwm_max, var) == (var * 255) \div pwm_max

(* ------------------------------- Init --------------------------------- *)
\* gpd_fan_init has run: jiffies_latest = jiffies - HZ
DriverInit(q, now) ==
    [ pwm_enable |-> AUTOMATIC, pwm_value |-> 255,
      fan_speed_cached |-> 0, read_pwm_cached |-> 0,
      fan_speed_last_update |-> now - HZ,
      read_pwm_last_update |-> now - HZ,
      quirk |-> q ]

\* EC RAM when the driver is loaded: the fan stands still, the PWM and
\* manual-control registers are clear, the PWMCTR registers hold what the
\* board's read path expects (0x7F on win4, 0xB8 on win_max_2) and the chip
\* answers with its identifier and version 1
EcInit(q) ==
    [o \in EcOffsets |->
        IF o \in PWMCTR_FIRST..PWMCTR_LAST
        THEN (IF q.board = "win4_6800u" THEN WIN4_PWMCTR_VAL ELSE WM2_PWMCTR_VAL)
        ELSE IF o = CHIP_ID_REG THEN CHIP_ID_VAL
        ELSE IF o = CHIP_VER_REG THEN 1
        ELSE 0]

Boot(n) ==
    /\ jiffies = 0
    /\ \E q \in gpd_module_quirks :
          /\ gpd_driver_priv = DriverInit(q, 0)
          /\ ecram = EcInit(q)
    /\ gpd_fan_lock = 0
    /\ ecHigh = 0 /\ ecLow = 0
    /\ proc = [p \in Callers |-> Idle]
    /\ attached = TRUE
    /\ calls = n

Init == Boot(MaxCalls)

(* ------------------------- EC register access ------------------------- *)
\* the mutex is taken without looking at its holder
MutexFreeUnchecked == TRUE

MutexFree == gpd_fan_lock = 0

\* the interrupted caller goes through the unlock of the normal exit
mutex_lock_interrupted_unlocks(p, f) ==
    \/ /\ MutexFree
       /\ gpd_fan_lock' = p
       /\ proc' = [proc EXCEPT ![p] = [f EXCEPT !.e = "hi", !.io = TRUE]]
    \/ /\ ~MutexFree
       /\ gpd_fan_lock' = 0
       /\ proc' = [proc EXCEPT ![p] = [f EXCEPT !.e = "none", !.ret = -EINTR]]

\* mutex_lock_interruptible at the head of gpd_ecram_read / gpd_ecram_write,
\* for the call described by frame f: the mutex is taken, or the caller is
\* interrupted while another caller holds it and the call returns -EINTR
\* with no port I/O.  (Waiting on is taking no step.)
mutex_lock_interruptible(p, f) ==
    \/ /\ MutexFree
       /\ gpd_fan_lock' = p
       /\ proc' = [proc EXCEPT ![p] = [f EXCEPT !.e = "hi", !.io = TRUE]]
    \/ /\ ~MutexFree
       /\ gpd_fan_lock' = gpd_fan_lock
       /\ proc' = [proc EXCEPT ![p] = [f EXCEPT !.e = "none", !.ret = -EINTR]]

\* mutex_unlock
mutex_unlock == gpd_fan_lock' = 0

\* the frame of a call gpd_ecram_read(quirk, off, &..), continuing at k
ReadCall(f, off, k) ==
    [f EXCEPT !.pc = k, !.e = "lock", !.isw = FALSE, !.off = off, !.wv = 0,
              !.ret = 0, !.rd = 0]

\* the frame of a call gpd_ecram_write(quirk, off, v), continuing at k
WriteCall(f, off, v, k) ==
    [f EXCEPT !.pc = k, !.e = "lock", !.isw = TRUE, !.off = off, !.wv = v,
              !.ret = 0, !.rd = 0]

\* the call follows purely local computation: straight to the mutex
Enter(p, f) == mutex_lock_interruptible(p, f)

\* the call follows an access to shared state: the caller is now at the mutex
Defer(p, f) ==
    /\ proc' = [proc EXCEPT ![p] = f]
    /\ UNCHANGED gpd_fan_lock

\* a caller at the mutex of a register access
EcramLock(p) ==
    /\ proc[p].e = "lock"
    /\ mutex_lock_interruptible(p, proc[p])
    /\ UNCHANGED <<gpd_driver_priv, world>>

\* the EC RAM cell the address latch points at
EcAddr == ecHigh * 256 + ecLow

\* the byte the EC returns for a read of the data register
EcData == IF EcAddr \in EcOffsets THEN ecram[EcAddr] ELSE 0

\* EC RAM after a write of v to the data register
EcStore(v) ==
    IF EcAddr \in EcOffsets THEN [ecram EXCEPT ![EcAddr] = v] ELSE ecram

\* outb 0x2E/0x11, 0x2F/(offset >> 8) & 0xFF
EcramSelectHigh(p) ==
    /\ proc[p].e = "hi"
    /\ ecHigh' = (proc[p].off \div 256) % 256
    /\ proc' = [proc EXCEPT ![p].e = "lo"]
    /\ UNCHANGED <<gpd_driver_priv, jiffies, gpd_fan_lock, ecram, ecLow,
                   attached, calls>>

\* outb 0x2E/0x10, 0x2F/offset & 0xFF
EcramSelectLow(p) ==
    /\ proc[p].e = "lo"
    /\ ecLow' = proc[p].off % 256
    /\ proc' = [proc EXCEPT ![p].e = "data"]
    /\ UNCHANGED <<gpd_driver_priv, jiffies, gpd_fan_lock, ecram, ecHigh,
                   attached, calls>>

\* outb 0x2E/0x12, 0x2F; *val = inb(data_port); mutex_unlock; return 0
EcramReadData(p) ==
    /\ proc[p].e = "data" /\ ~proc[p].isw
    /\ proc' = [proc EXCEPT ![p] =
                  [@ EXCEPT !.e = "none", !.ret = 0, !.rd = EcData]]
    /\ mutex_unlock
    /\ UNCHANGED <<gpd_driver_priv, world>>

\* outb 0x2E/0x12, 0x2F; outb(value, data_port); mutex_unlock; return 0
EcramWriteData(p) ==
    /\ proc[p].e = "data" /\ proc[p].isw
    /\ ecram' = EcStore(proc[p].wv)
    /\ proc' = [proc EXCEPT ![p] = [@ EXCEPT !.e = "none", !.ret = 0]]
    /\ mutex_unlock
    /\ UNCHANGED <<gpd_driver_priv, jiffies, ecHigh, ecLow, attached, calls>>

\* driver level: the twelve port accesses of gpd_ecram_read under the mutex
\* (EcramSelectHigh, EcramSelectLow, EcramReadData) in one step
EcramRead(p) ==
    /\ proc[p].e = "hi" /\ ~proc[p].isw
    /\ ecHigh' = (proc[p].off \div 256) % 256
    /\ ecLow' = proc[p].off % 256
    /\ proc' = [proc EXCEPT ![p] =
                  [@ EXCEPT !.e = "none", !.ret = 0, !.rd = ecram[proc[p].off]]]
    /\ mutex_unlock
    /\ UNCHANGED <<gpd_driver_priv, jiffies, ecram, attached, calls>>

\* driver level: the twelve port accesses of gpd_ecram_write under the mutex
\* (EcramSelectHigh, EcramSelectLow, EcramWriteData) in one step
EcramWrite(p) ==
    /\ proc[p].e = "hi" /\ proc[p].isw
    /\ ecHigh' = (proc[p].off \div 256) % 256
    /\ ecLow' = proc[p].off % 256
    /\ ecram' = [ecram EXCEPT ![proc[p].off] = proc[p].wv]
    /\ proc' = [proc EXCEPT ![p] = [@ EXCEPT !.e = "none", !.ret = 0]]
    /\ mutex_unlock
    /\ UNCHANGED <<gpd_driver_priv, jiffies, attached, calls>>

gpd_ecram_read(p) ==
    \/ EcramLock(p) /\ ~proc[p].isw
    \/ EcramRead(p)

gpd_ecram_write(p) ==
    \/ EcramLock(p) /\ proc[p].isw
    \/ EcramWrite(p)

\* a caller back from a register access (or not in one), at label k
At(p, op, k) == proc[p].op = op /\ proc[p].pc = k /\ proc[p].e = "none"

\* the frame of a callback that has returned err (0 or a negative errno) and,
\* with 0, the value out
Ret(f, err, out) ==
    [Idle EXCEPT !.op = f.op, !.arg = f.arg, !.en = f.en, !.io = f.io,
                 !.at = f.at, !.seen = f.seen,
                 !.pc = "ret", !.err = err, !.out = out]

\* the same callback, past its register accesses, at label k
Goto(f, k) ==
    [Idle EXCEPT !.op = f.op, !.arg = f.arg, !.en = f.en, !.io = f.io,
                 !.at = f.at, !.seen = f.seen, !.pc = k]

\* the frame of a callback just entered
Frame(op, arg) == [Idle EXCEPT !.op = op, !.arg = arg]

\* a callback may be invoked by caller p
Invoke(p) ==
    /\ attached
    /\ proc[p].op = "idle"
    /\ calls > 0
    /\ calls' = calls - 1

\* the outcomes of a test (x == v) on the byte a read left in x: decided by
\* the byte read, or either way when the read was interrupted and x was
\* never written
TestEq(f, v) == IF f.ret = 0 THEN {f.rd = v} ELSE BOOLEAN

\* the next register access follows local computation only
CallNext(p, f) == Enter(p, f) /\ UNCHANGED gpd_driver_priv

\* the callback returns without touching the driver state
Return(p, f, err, out) ==
    /\ proc' = [proc EXCEPT ![p] = Ret(f, err, out)]
    /\ UNCHANGED <<gpd_driver_priv, gpd_fan_lock>>

(* ------------------------------ fan1_input ---------------------------- *)
\* the timestamp is taken before the result is looked at
RpmRefreshedStampFirst(p, f, ret) ==
    IF ret < 0
    THEN /\ gpd_driver_priv' =
              [gpd_driver_priv EXCEPT !.fan_speed_last_update = jiffies]
         /\ proc' = [proc EXCEPT ![p] = Ret(f, ret, 0)]
         /\ UNCHANGED gpd_fan_lock
    ELSE /\ gpd_driver_priv' =
              [gpd_driver_priv EXCEPT !.fan_speed_cached = ret % 65536]
         /\ proc' = [proc EXCEPT ![p] = Goto(f, "rpm_stamp")]
         /\ UNCHANGED gpd_fan_lock

\* gpd_read_rpm after the uncached read returned ret: an error is returned
\* as it is, a value is stored in the cache (the timestamp follows)
RpmRefreshed(p, f, ret) ==
    IF ret < 0
    THEN Return(p, f, ret, 0)
    ELSE /\ gpd_driver_priv' =
              [gpd_driver_priv EXCEPT !.fan_speed_cached = ret % 65536]
         /\ proc' = [proc EXCEPT ![p] = Goto(f, "rpm_stamp")]
         /\ UNCHANGED gpd_fan_lock

\* gpd_win4_read_rpm_uncached after gpd_generic_read_rpm_uncached returned ret
Win4AfterGeneric(p, f, ret) ==
    IF ret = 0
    THEN CallNext(p, ReadCall(f, CHIP_ID_REG, "w4_id"))
    ELSE RpmRefreshed(p, f, ret)

\* the caller of gpd_generic_read_rpm_uncached gets ret
GenericReturns(p, f, ret) ==
    IF quirk.board = "win4_6800u"
    THEN Win4AfterGeneric(p, f, ret)
    ELSE RpmRefreshed(p, f, ret)

\* gpd_generic_read_rpm_uncached: the read of the high byte
GenericCall(f) == ReadCall(f, quirk.rpm_read, "g_high")

GenericHigh(p) ==
    /\ At(p, "read_rpm", "g_high")
    /\ LET f == proc[p] IN
       IF f.ret # 0
       THEN GenericReturns(p, f, f.ret)
       ELSE CallNext(p, ReadCall([f EXCEPT !.high = f.rd],
                                 quirk.rpm_read + 1, "g_low"))
    /\ UNCHANGED world

GenericLow(p) ==
    /\ At(p, "read_rpm", "g_low")
    /\ LET f == proc[p] IN
       GenericReturns(p, f, IF f.ret # 0 THEN f.ret ELSE Rpm16(f.high, f.rd))
    /\ UNCHANGED world

gpd_generic_read_rpm_uncached(p) == GenericHigh(p) \/ GenericLow(p)

\* PWMCTR read at 0x1841 done (its result unchecked); rewrite unless 0x7F
Win4Ctr(p) ==
    /\ At(p, "read_rpm", "w4_ctr")
    /\ LET f == proc[p] IN
       \E eq \in TestEq(f, WIN4_PWMCTR_VAL) :
          IF ~eq
          THEN CallNext(p, WriteCall(f, PWMCTR_FIRST, WIN4_PWMCTR_VAL, "w4_ctr_w"))
          ELSE CallNext(p, GenericCall(f))
    /\ UNCHANGED world

Win4CtrWritten(p) ==
    /\ At(p, "read_rpm", "w4_ctr_w")
    /\ CallNext(p, GenericCall(proc[p]))
    /\ UNCHANGED world

\* RPM was 0: chip_id read done (its result unchecked)
Win4ChipId(p) ==
    /\ At(p, "read_rpm", "w4_id")
    /\ LET f == proc[p] IN
       \E eq \in TestEq(f, CHIP_ID_VAL) :
          IF eq
          THEN CallNext(p, ReadCall(f, CHIP_VER_REG, "w4_ver"))
          ELSE RpmRefreshed(p, f, 0)
    /\ UNCHANGED world

\* if (gpd_ecram_read(quirk, 0x1060, &chip_ver))
\*         gpd_ecram_write(quirk, 0x1060, chip_ver | 0x80);
\* the write is made when the read returned non-zero, chip_ver never written
Win4ChipVer(p) ==
    /\ At(p, "read_rpm", "w4_ver")
    /\ LET f == proc[p] IN
       IF f.ret # 0
       THEN \E v \in UninitBytes :
               CallNext(p, WriteCall(f, CHIP_VER_REG, OrBit80(v), "w4_ver_w"))
       ELSE RpmRefreshed(p, f, 0)
    /\ UNCHANGED world

Win4ChipVerWritten(p) ==
    /\ At(p, "read_rpm", "w4_ver_w")
    /\ RpmRefreshed(p, proc[p], 0)
    /\ UNCHANGED world

gpd_win4_read_rpm_uncached(p) ==
    \/ Win4Ctr(p)
    \/ Win4CtrWritten(p)
    \/ Win4ChipId(p)
    \/ Win4ChipVer(p)
    \/ Win4ChipVerWritten(p)

\* the loop of gpd_wm2_read_rpm_uncached moves on from pwm_ctr_offset
Wm2NextCtr(p, f) ==
    IF f.off + 1 <= PWMCTR_LAST
    THEN CallNext(p, ReadCall(f, f.off + 1, "wm2_ctr"))
    ELSE CallNext(p, GenericCall(f))

\* PWMCTR read at pwm_ctr_offset done (its result unchecked); rewrite unless 0xB8
Wm2Ctr(p) ==
    /\ At(p, "read_rpm", "wm2_ctr")
    /\ LET f == proc[p] IN
       \E eq \in TestEq(f, WM2_PWMCTR_VAL) :
          IF ~eq
          THEN CallNext(p, WriteCall(f, f.off, WM2_PWMCTR_VAL, "wm2_ctr_w"))
          ELSE Wm2NextCtr(p, f)
    /\ UNCHANGED world

Wm2CtrWritten(p) ==
    /\ At(p, "read_rpm", "wm2_ctr_w")
    /\ Wm2NextCtr(p, proc[p])
    /\ UNCHANGED world

gpd_wm2_read_rpm_uncached(p) == Wm2Ctr(p) \/ Wm2CtrWritten(p)

\* gpd_fan_hwmon_read(hwmon_fan, hwmon_fan_input) -> gpd_read_rpm: the test
\* of the cache age, then the first register access of the board's read
RpmEntry(p) ==
    /\ Invoke(p)
    /\ LET f == [Frame("read_rpm", 0) EXCEPT
                   !.at = jiffies,
                   !.seen = gpd_driver_priv.fan_speed_last_update]
       IN
       IF time_after(jiffies, gpd_driver_priv.fan_speed_last_update + HZ)
       THEN CASE quirk.board = "win_mini" ->
                    Defer(p, GenericCall(f))
              [] quirk.board = "win4_6800u" ->
                    Defer(p, ReadCall(f, PWMCTR_FIRST, "w4_ctr"))
              [] quirk.board = "win_max_2" ->
                    Defer(p, ReadCall(f, PWMCTR_FIRST, "wm2_ctr"))
       ELSE Defer(p, Goto(f, "rpm_load"))
    /\ UNCHANGED <<gpd_driver_priv, jiffies, ecram, ecHigh, ecLow, attached>>

\* gpd_driver_priv.fan_speed_last_update = jiffies
RpmStamp(p) ==
    /\ At(p, "read_rpm", "rpm_stamp")
    /\ gpd_driver_priv' =
         [gpd_driver_priv EXCEPT !.fan_speed_last_update = jiffies]
    /\ proc' = [proc EXCEPT ![p] = Goto(proc[p], "rpm_load")]
    /\ UNCHANGED <<gpd_fan_lock, world>>

\* return gpd_driver_priv.fan_speed_cached
RpmLoad(p) ==
    /\ At(p, "read_rpm", "rpm_load")
    /\ Return(p, proc[p], 0, gpd_driver_priv.fan_speed_cached)
    /\ UNCHANGED world

gpd_read_rpm(p) == RpmEntry(p) \/ RpmStamp(p) \/ RpmLoad(p)

(* -------------------------------- pwm1 -------------------------------- *)
\* gpd_fan_hwmon_read(hwmon_pwm, hwmon_pwm_input) -> gpd_read_pwm: win_mini
\* and win4 return pwm_value; win_max_2 tests the cache age
PwmEntry(p) ==
    /\ Invoke(p)
    /\ LET c == Frame("read_pwm", 0)
           f == [c EXCEPT !.at = jiffies,
                          !.seen = gpd_driver_priv.read_pwm_last_update]
       IN
       IF quirk.board # "win_max_2"
       THEN Return(p, c, 0, gpd_driver_priv.pwm_value)
       ELSE /\ IF time_after(jiffies, gpd_driver_priv.read_pwm_last_update + HZ)
               THEN Defer(p, ReadCall(f, quirk.pwm_write, "pwm_unc"))
               ELSE Defer(p, Goto(f, "pwm_load"))
            /\ UNCHANGED gpd_driver_priv
    /\ UNCHANGED <<jiffies, ecram, ecHigh, ecLow, attached>>

\* gpd_wm2_read_pwm_uncached has read the PWM register; gpd_read_pwm returns
\* the error or stores the scaled value in the u8 cache
gpd_wm2_read_pwm_uncached(p) ==
    /\ At(p, "read_pwm", "pwm_unc")
    /\ LET f == proc[p] IN
       IF f.ret < 0
       THEN Return(p, f, f.ret, 0)
       ELSE /\ gpd_driver_priv' =
                 [gpd_driver_priv EXCEPT !.read_pwm_cached =
                     Wm2PwmScaled(quirk.pwm_max, f.rd) % 256]
            /\ proc' = [proc EXCEPT ![p] = Goto(f, "pwm_stamp")]
            /\ UNCHANGED gpd_fan_lock
    /\ UNCHANGED world

\* gpd_driver_priv.read_pwm_last_update = jiffies
PwmStamp(p) ==
    /\ At(p, "read_pwm", "pwm_stamp")
    /\ gpd_driver_priv' =
         [gpd_driver_priv EXCEPT !.read_pwm_last_update = jiffies]
    /\ proc' = [proc EXCEPT ![p] = Goto(proc[p], "pwm_load")]
    /\ UNCHANGED <<gpd_fan_lock, world>>

\* return gpd_driver_priv.read_pwm_cached
PwmLoad(p) ==
    /\ At(p, "read_pwm", "pwm_load")
    /\ Return(p, proc[p], 0, gpd_driver_priv.read_pwm_cached)
    /\ UNCHANGED world

gpd_read_pwm(p) == PwmEntry(p) \/ PwmStamp(p) \/ PwmLoad(p)

\* the frame of a call gpd_generic_write_pwm(val), continuing at k
gpd_generic_write_pwm(f, val, k) ==
    WriteCall(f, quirk.pwm_write, GenericPwmActual(quirk.pwm_max, val), k)

\* win_mini given the test of win_max_2
WinMiniWritesAsWm2 == gpd_driver_priv.pwm_enable # DISABLE

\* gpd_win_mini_write_pwm writes when
WinMiniWrites == gpd_driver_priv.pwm_enable = MANUAL

\* gpd_wm2_write_pwm writes when
Wm2Writes == gpd_driver_priv.pwm_enable # DISABLE

\* writing the duty also switches to manual control
PwmValueStoredManual(var) ==
    [gpd_driver_priv EXCEPT !.pwm_value = var, !.pwm_enable = MANUAL]

\* gpd_driver_priv.pwm_value = var
PwmValueStored(var) == [gpd_driver_priv EXCEPT !.pwm_value = var]

\* gpd_fan_hwmon_write(hwmon_pwm, hwmon_pwm_input, val): clamp and store;
\* on win4 gpd_write_pwm goes to the register write without reading the mode
WritePwmEntry(p, val) ==
    /\ Invoke(p)
    /\ LET f == Frame("write_pwm", val)
           var == clamp_val(val, 0, 255)
       IN /\ gpd_driver_priv' = PwmValueStored(var)
          /\ IF quirk.board = "win4_6800u"
             THEN Defer(p, gpd_generic_write_pwm(f, var, "wp_done"))
             ELSE Defer(p, Goto(f, "wp_mode"))
    /\ UNCHANGED <<jiffies, ecram, ecHigh, ecLow, attached>>

\* gpd_win_mini_write_pwm / gpd_wm2_write_pwm: the test of pwm_enable
WritePwmMode(p) ==
    /\ At(p, "write_pwm", "wp_mode")
    /\ LET f == [proc[p] EXCEPT !.en = gpd_driver_priv.pwm_enable]
           var == clamp_val(f.arg, 0, 255)
           writes == IF quirk.board = "win_mini" THEN WinMiniWrites ELSE Wm2Writes
       IN IF writes
          THEN Defer(p, gpd_generic_write_pwm(f, var, "wp_done"))
          ELSE proc' = [proc EXCEPT ![p] = Ret(f, 0, 0)] /\ UNCHANGED gpd_fan_lock
    /\ UNCHANGED <<gpd_driver_priv, world>>

\* return gpd_ecram_write(..)
WritePwmDone(p) ==
    /\ At(p, "write_pwm", "wp_done")
    /\ Return(p, proc[p], proc[p].ret, 0)
    /\ UNCHANGED world

gpd_write_pwm(p) ==
    \/ \E val \in PwmInputs : WritePwmEntry(p, val)
    \/ WritePwmMode(p)
    \/ WritePwmDone(p)

(* ----------------------------- pwm1_enable ---------------------------- *)
\* gpd_fan_hwmon_read(hwmon_pwm, hwmon_pwm_enable)
ReadEnable(p) ==
    /\ Invoke(p)
    /\ Return(p, Frame("read_enable", 0), 0, gpd_driver_priv.pwm_enable)
    /\ UNCHANGED <<jiffies, ecram, ecHigh, ecLow, attached>>

\* gpd_win_mini_set_pwm_enable(enable): the frame of its register write
gpd_win_mini_set_pwm_enable(f, enable) ==
    CASE enable = DISABLE -> gpd_generic_write_pwm(f, 255, "se_done")
      [] enable = MANUAL ->
            gpd_generic_write_pwm(f, gpd_driver_priv.pwm_value, "se_done")
      [] enable = AUTOMATIC -> WriteCall(f, quirk.pwm_write, 0, "se_done")

\* manual control enabled before the PWM register is written
gpd_wm2_set_pwm_enable_first(f, enable) ==
    CASE enable = DISABLE -> WriteCall(f, quirk.manual_control_enable, 1, "se_wm2")
      [] enable = MANUAL -> WriteCall(f, quirk.manual_control_enable, 1, "se_wm2")
      [] enable = AUTOMATIC ->
            WriteCall(f, quirk.manual_control_enable, 0, "se_done")

\* gpd_wm2_set_pwm_enable(enable): the frame of its first register write
gpd_wm2_set_pwm_enable(f, enable) ==
    CASE enable = DISABLE -> gpd_generic_write_pwm(f, 255, "se_wm2")
      [] enable = MANUAL ->
            gpd_generic_write_pwm(f, gpd_driver_priv.pwm_value, "se_wm2")
      [] enable = AUTOMATIC ->
            WriteCall(f, quirk.manual_control_enable, 0, "se_done")

\* gpd_set_pwm_enable(enable)
gpd_set_pwm_enable(f, enable) ==
    IF quirk.board = "win_max_2"
    THEN gpd_wm2_set_pwm_enable([f EXCEPT !.en = enable], enable)
    ELSE gpd_win_mini_set_pwm_enable([f EXCEPT !.en = enable], enable)

\* gpd_driver_priv.pwm_enable = val
PwmEnableStored(val) == [gpd_driver_priv EXCEPT !.pwm_enable = val]

\* gpd_fan_hwmon_write(hwmon_pwm, hwmon_pwm_enable, val): validate and store
SetEnableEntry(p, val) ==
    /\ Invoke(p)
    /\ LET f == Frame("set_enable", val) IN
       IF ~in_range(val, 0, 3)
       THEN Return(p, f, -EINVAL, 0)
       ELSE /\ gpd_driver_priv' = PwmEnableStored(val)
            /\ Defer(p, Goto(f, "se_call"))
    /\ UNCHANGED <<jiffies, ecram, ecHigh, ecLow, attached>>

\* return gpd_set_pwm_enable(gpd_driver_priv.pwm_enable): the argument is
\* the value just stored or, read back from the unlocked field, what
\* another caller has stored since
SetEnableCall(p) ==
    /\ At(p, "set_enable", "se_call")
    /\ \E enable \in {proc[p].arg, gpd_driver_priv.pwm_enable} :
          Defer(p, gpd_set_pwm_enable(proc[p], enable))
    /\ UNCHANGED <<gpd_driver_priv, world>>

\* gpd_wm2_set_pwm_enable, DISABLE and MANUAL: after the PWM write
SetEnableWm2(p) ==
    /\ At(p, "set_enable", "se_wm2")
    /\ LET f == proc[p] IN
       IF f.ret # 0
       THEN Return(p, f, f.ret, 0)
       ELSE CallNext(p, WriteCall(f, quirk.manual_control_enable, 1, "se_done"))
    /\ UNCHANGED world

\* the mode put back to the boot mode when the handler failed
SetEnableDoneRolledBack(p) ==
    /\ At(p, "set_enable", "se_done")
    /\ proc' = [proc EXCEPT ![p] = Ret(proc[p], proc[p].ret, 0)]
    /\ gpd_driver_priv' =
         IF proc[p].ret # 0 THEN PwmEnableStored(AUTOMATIC) ELSE gpd_driver_priv
    /\ UNCHANGED <<gpd_fan_lock, world>>

\* the handler's last register write is done
SetEnableDone(p) ==
    /\ At(p, "set_enable", "se_done")
    /\ Return(p, proc[p], proc[p].ret, 0)
    /\ UNCHANGED world

gpd_fan_hwmon_write_enable(p) ==
    \/ \E val \in EnableInputs : SetEnableEntry(p, val)
    \/ SetEnableCall(p)
    \/ SetEnableWm2(p)
    \/ SetEnableDone(p)

\* gpd_fan_hwmon_read / gpd_fan_hwmon_write with any other type or attribute
HwmonUnsupported(p) ==
    /\ Invoke(p)
    /\ Return(p, Frame("unsupported", 0), -EOPNOTSUPP, 0)
    /\ UNCHANGED <<jiffies, ecram, ecHigh, ecLow, attached>>

(* ------------------------------- remove ------------------------------- *)
\* gpd_fan_remove: pwm_enable = AUTOMATIC; gpd_set_pwm_enable(AUTOMATIC)
RemoveEntry(p) ==
    /\ Invoke(p)
    /\ \A q \in Callers : proc[q].op # "remove"
    /\ gpd_driver_priv' = PwmEnableStored(AUTOMATIC)
    /\ Defer(p, gpd_set_pwm_enable(Frame("remove", 0), AUTOMATIC))
    /\ UNCHANGED <<jiffies, ecram, ecHigh, ecLow, attached>>

\* remove returning what gpd_set_pwm_enable returned
RemoveDonePropagates(p) ==
    /\ At(p, "remove", "se_done")
    /\ proc' = [proc EXCEPT ![p] = Ret(proc[p], proc[p].ret, 0)]
    /\ attached' = FALSE
    /\ UNCHANGED <<gpd_driver_priv, gpd_fan_lock, jiffies, ecram, ecHigh,
                   ecLow, calls>>

\* return 0, whatever gpd_set_pwm_enable returned; the device is unbound
RemoveDone(p) ==
    /\ At(p, "remove", "se_done")
    /\ proc' = [proc EXCEPT ![p] = Ret(proc[p], 0, 0)]
    /\ attached' = FALSE
    /\ UNCHANGED <<gpd_driver_priv, gpd_fan_lock, jiffies, ecram, ecHigh,
                   ecLow, calls>>

gpd_fan_remove(p) == RemoveEntry(p) \/ RemoveDone(p)

(* ------------------------- the caller and the world -------------------- *)
\* the callback has returned to its caller
Done(p) ==
    /\ proc[p].pc = "ret"
    /\ proc' = [proc EXCEPT ![p] = Idle]
    /\ UNCHANGED <<gpd_driver_priv, gpd_fan_lock, world>>

\* a timer tick
Tick ==
    /\ jiffies < MaxJiffies
    /\ jiffies' = jiffies + 1
    /\ UNCHANGED <<gpd_driver_priv, gpd_fan_lock, ecram, ecHigh, ecLow, proc,
                   attached, calls>>

\* the EC measures a new fan speed
EcFan ==
    /\ \E r \in RpmValues :
         /\ r # Rpm16(ecram[quirk.rpm_read], ecram[quirk.rpm_read + 1])
         /\ ecram' = [ecram EXCEPT ![quirk.rpm_read] = r \div 256,
                                   ![quirk.rpm_read + 1] = r % 256]
    /\ UNCHANGED <<gpd_driver_priv, jiffies, gpd_fan_lock, ecHigh, ecLow, proc,
                   attached, calls>>

Next ==
    \/ \E p \in Callers :
         \/ gpd_ecram_read(p)
         \/ gpd_ecram_write(p)
         \/ gpd_generic_read_rpm_uncached(p)
         \/ gpd_win4_read_rpm_uncached(p)
         \/ gpd_wm2_read_rpm_uncached(p)
         \/ gpd_read_rpm(p)
         \/ gpd_wm2_read_pwm_uncached(p)
         \/ gpd_read_pwm(p)
         \/ gpd_write_pwm(p)
         \/ ReadEnable(p)
         \/ gpd_fan_hwmon_write_enable(p)
         \/ HwmonUnsupported(p)
         \/ gpd_fan_remove(p)
         \/ Done(p)
    \/ Tick
    \/ EcFan

Spec == Init /\ [][Next]_vars

(* ----------------------------- port level ------------------------------ *)
\* the registers of the selected board
QuirkOffsets ==
    {quirk.manual_control_enable, quirk.rpm_read, quirk.rpm_read + 1,
     quirk.pwm_write}

\* bytes written in the port-level runs
PortBytes == {17, 34}

\* some code of the driver calls gpd_ecram_read(quirk, off, &val)
PortReadCall(p) ==
    /\ Invoke(p)
    /\ \E off \in QuirkOffsets :
          Defer(p, ReadCall(Frame("ecram", off), off, "port_done"))
    /\ UNCHANGED <<gpd_driver_priv, jiffies, ecram, ecHigh, ecLow, attached>>

\* some code of the driver calls gpd_ecram_write(quirk, off, v)
PortWriteCall(p) ==
    /\ Invoke(p)
    /\ \E off \in QuirkOffsets, v \in PortBytes :
          Defer(p, WriteCall(Frame("ecram", off), off, v, "port_done"))
    /\ UNCHANGED <<gpd_driver_priv, jiffies, ecram, ecHigh, ecLow, attached>>

\* gpd_ecram_read / gpd_ecram_write has returned ret and, for a read, *val
PortReturn(p) ==
    /\ At(p, "ecram", "port_done")
    /\ Return(p, proc[p], proc[p].ret, proc[p].rd)
    /\ UNCHANGED world

PortNext ==
    \E p \in Callers :
       \/ PortReadCall(p)
       \/ PortWriteCall(p)
       \/ EcramLock(p)
       \/ EcramSelectHigh(p)
       \/ EcramSelectLow(p)
       \/ EcramReadData(p)
       \/ EcramWriteData(p)
       \/ PortReturn(p)
       \/ Done(p)

SpecPort == Init /\ [][PortNext]_vars

(* ------------------------- the cached reads alone ---------------------- *)
\* only fan1_input and pwm1 are read, more often
InitReads == Boot(MaxReads)

ReadsNext ==
    \/ \E p \in Callers :
          \/ gpd_ecram_read(p)
          \/ EcramWrite(p)
          \/ gpd_generic_read_rpm_uncached(p)
          \/ gpd_win4_read_rpm_uncached(p)
          \/ gpd_wm2_read_rpm_uncached(p)
          \/ gpd_read_rpm(p)
          \/ gpd_wm2_read_pwm_uncached(p)
          \/ gpd_read_pwm(p)
          \/ Done(p)
    \/ Tick
    \/ EcFan

SpecReads == InitReads /\ [][ReadsNext]_vars

(* ---------------------------- the scaling ------------------------------ *)
\* the largest duty a caller can ask for
PWM_MAX_DUTY == 255

\* gpd_generic_write_pwm(val) is called, for any duty: the frame of its
\* register write
ScaleCall(p, val) ==
    /\ proc' = [proc EXCEPT ![p] =
                  gpd_generic_write_pwm(Frame("write_pwm", val), val, "wp_done")]
    /\ UNCHANGED <<gpd_driver_priv, gpd_fan_lock, world>>

ScaleNext == \E val \in 0..PWM_MAX_DUTY : ScaleCall(1, val)

SpecScale == Init /\ [][ScaleNext]_vars

(* ------------------------------ module load --------------------------- *)
ENODEV == 19

\* no struct gpd_board_quirk
NULL ==
    [ board_name |-> "", board |-> "",
      addr_port |-> 0, data_port |-> 0,
      manual_control_enable |-> 0, rpm_read |-> 0,
      pwm_write |-> 0, pwm_max |-> 0 ]

\* the static gpd_driver_priv before gpd_fan_init: zero-filled
ZeroPriv ==
    [ pwm_enable |-> 0, pwm_value |-> 0,
      fan_speed_cached |-> 0, read_pwm_cached |-> 0,
      fan_speed_last_update |-> 0, read_pwm_last_update |-> 0,
      quirk |-> NULL ]

\* values of the module parameter gpd_fan_board: unset, two board names, and
\* a name of no board
BoardParams == {"", "win4", "wm2", "win5"}

\* what dmi_first_match(dmi_table) finds for the machine: the driver_data of
\* an entry of dmi_table, or no entry
DmiMatches == gpd_module_quirks \cup {NULL}

\* what dereferencing the NULL returned by dmi_first_match can do: the kernel
\* faults and init never returns, or the load goes through and yields NULL
NullDerefOutcomes == {"oops", "null"}

\* the module is not loaded; the machine is one of the boards
InitLoad ==
    /\ jiffies = 0
    /\ gpd_driver_priv = ZeroPriv
    /\ \E hw \in gpd_module_quirks : ecram = EcInit(hw)
    /\ gpd_fan_lock = 0
    /\ ecHigh = 0 /\ ecLow = 0
    /\ proc = [p \in Callers |-> Idle]
    /\ attached = FALSE
    /\ calls = MaxCalls

\* the loop over gpd_module_quirks: the entry named by gpd_fan_board, if any
ParamMatch(board) ==
    IF \E q \in gpd_module_quirks : q.board_name = board
    THEN CHOOSE q \in gpd_module_quirks : q.board_name = board
    ELSE NULL

\* gpd_fan_init has found match: the driver state is set up and the
\* platform device bound
InitMatched(match) ==
    /\ gpd_driver_priv' = DriverInit(match, jiffies)
    /\ attached' = TRUE
    /\ proc' = [proc EXCEPT ![1] = Ret(Frame("init", 0), 0, 0)]

\* gpd_fan_init ends without a match, at label k returning err
InitUnmatched(k, err) ==
    /\ proc' = [proc EXCEPT ![1] = [Ret(Frame("init", 0), err, 0) EXCEPT !.pc = k]]
    /\ UNCHANGED <<gpd_driver_priv, attached>>

\* gpd_fan_init with the parameter board on a machine where dmi_first_match
\* finds dmi
gpd_fan_init(board, dmi) ==
    /\ gpd_driver_priv.quirk = NULL
    /\ proc[1].op = "idle"
    /\ IF ParamMatch(board) # NULL
       THEN InitMatched(ParamMatch(board))
       ELSE IF dmi # NULL
       THEN InitMatched(dmi)
       ELSE \E outcome \in NullDerefOutcomes :
               IF outcome = "oops"
               THEN InitUnmatched("oops", 0)
               ELSE InitUnmatched("ret", -ENODEV)
    /\ UNCHANGED <<jiffies, gpd_fan_lock, ecram, ecHigh, ecLow, calls>>

\* before the module is loaded only the clock moves
LoadNext ==
    \/ \E board \in BoardParams, dmi \in DmiMatches : gpd_fan_init(board, dmi)
    \/ gpd_driver_priv.quirk = NULL /\ Tick
    \/ gpd_driver_priv.quirk = NULL /\ Done(1)
    \/ gpd_driver_priv.quirk # NULL /\ Next

SpecLoad == InitLoad /\ [][LoadNext]_vars

(* ------------------------ the scaling of pwm1 reads -------------------- *)
\* the largest byte the EC can hold in a register
BYTE_MAX == 255

InitWm2 == Boot(MaxCalls) /\ quirk = gpd_wm2_quirk

\* the register access of gpd_wm2_read_pwm_uncached has returned the byte raw
PwmRegisterRead(p, raw) ==
    /\ proc[p].op = "idle"
    /\ proc' = [proc EXCEPT ![p] =
                  [Frame("read_pwm", 0) EXCEPT
                      !.pc = "pwm_unc", !.rd = raw, !.io = TRUE,
                      !.at = jiffies,
                      !.seen = gpd_driver_priv.read_pwm_last_update]]
    /\ UNCHANGED <<gpd_driver_priv, gpd_fan_lock, world>>

PwmReadNext ==
    \/ \E raw \in 0..BYTE_MAX : PwmRegisterRead(1, raw)
    \/ gpd_wm2_read_pwm_uncached(1)
    \/ PwmStamp(1)
    \/ PwmLoad(1)
    \/ Done(1)

SpecPwmRead == InitWm2 /\ [][PwmReadNext]_vars

(* ------------------------------ properties ----------------------------- *)
Low(off) == off % 256
High(off) == (off \div 256) % 256

\* caller p holds the mutex and is at the ports
AtPorts(p) == proc[p].e \in {"hi", "lo", "data"}

\* C1 (SpecPort): the port steps of one register access are never
\* interspersed with those of another: a caller at the ports holds the mutex,
\* no other caller is at the ports, and the offset bytes it has selected are
\* still the ones latched
C1_AccessesNeverInterleave ==
    \A p \in Callers :
       AtPorts(p) =>
          /\ gpd_fan_lock = p
          /\ \A q \in Callers \ {p} : ~AtPorts(q)
          /\ proc[p].e \in {"lo", "data"} => ecHigh = High(proc[p].off)
          /\ proc[p].e = "data" => ecLow = Low(proc[p].off)

\* one caller is about to transfer its data byte while the other waits at the
\* mutex for a different register
C1_Witness ==
    /\ proc[1].e = "data"
    /\ proc[2].e = "lock"
    /\ High(proc[2].off) # High(proc[1].off) \/ Low(proc[2].off) # Low(proc[1].off)

\* gpd_write_pwm is past its test of the mode
PastModeTest(f) == f.op = "write_pwm" /\ f.pc # "wp_mode"

\* gpd_write_pwm went for the register write (made, under way or interrupted)
WriteIssued(f) ==
    \/ f.e # "none"
    \/ f.pc = "wp_done"
    \/ f.pc = "ret" /\ (f.io \/ f.err # 0)

\* C2: write-PWM issues the write of the PWM register on win-mini only when
\* the mode it reads is Manual, on win4 always, on win-max-2 unless the mode
\* is Disabled; otherwise it makes no register access and returns success
C2_WritePwmByBoardAndMode ==
    \A p \in Callers :
       LET f == proc[p] IN
       PastModeTest(f) =>
          /\ CASE quirk.board = "win_mini" -> WriteIssued(f) <=> f.en = MANUAL
               [] quirk.board = "win4_6800u" -> WriteIssued(f)
               [] quirk.board = "win_max_2" -> WriteIssued(f) <=> f.en # DISABLE
          /\ ~WriteIssued(f) => f.pc = "ret" /\ f.err = 0 /\ ~f.io
          /\ f.e # "none" => f.isw /\ f.off = quirk.pwm_write

\* on win-mini a write-PWM made in mode Disabled has returned success without
\* a register access
C2_Witness ==
    /\ quirk.board = "win_mini"
    /\ \E p \in Callers :
          /\ proc[p].op = "write_pwm" /\ proc[p].pc = "ret"
          /\ proc[p].en = DISABLE /\ ~proc[p].io /\ proc[p].err = 0

\* caller p enters the callback op in this step
Enters(p, op) == proc[p].op = "idle" /\ proc'[p].op = op

\* C3: set-mode with a value outside {0,1,2} fails with -EINVAL, leaves the
\* stored mode as it was and makes no register access; a value in {0,1,2} is
\* never refused with -EINVAL
C3_SetModeValidation ==
    [][\A p \in Callers :
          /\ Enters(p, "set_enable") /\ proc'[p].arg \notin {0, 1, 2} =>
                /\ proc'[p].pc = "ret" /\ proc'[p].err = -EINVAL
                /\ ~proc'[p].io
                /\ UNCHANGED <<gpd_driver_priv, ecram, ecHigh, ecLow, gpd_fan_lock>>
          /\ proc'[p].op = "set_enable" /\ proc'[p].arg \in {0, 1, 2} =>
                proc'[p].err # -EINVAL
      ]_vars

\* a negative mode was refused while the stored mode was Manual
C3_Witness ==
    /\ gpd_driver_priv.pwm_enable = MANUAL
    /\ \E p \in Callers :
          /\ proc[p].op = "set_enable" /\ proc[p].pc = "ret"
          /\ proc[p].arg = -1 /\ proc[p].err = -EINVAL

\* C4: the stored mode changes only in the store made by set-mode or by
\* remove; no step of write-PWM, read-RPM, read-PWM or read-mode changes it,
\* whether their register accesses succeed or are interrupted
C4_ModeChangesOnlyBySetMode ==
    [][gpd_driver_priv'.pwm_enable # gpd_driver_priv.pwm_enable =>
          \E p \in Callers : Enters(p, "set_enable") \/ Enters(p, "remove")
      ]_vars

\* a write-PWM whose register write was interrupted has returned, the mode
\* being Manual
C4_Witness ==
    /\ gpd_driver_priv.pwm_enable = MANUAL
    /\ \E p \in Callers :
          /\ proc[p].op = "write_pwm" /\ proc[p].pc = "ret"
          /\ proc[p].err = -EINTR

\* reads of a cached quantity
CachedReads == {"read_rpm", "read_pwm"}

\* caller p is in a cached read whose age test found less than HZ elapsed
\* since the last refresh
Fresh(p) ==
    /\ proc[p].op \in CachedReads
    /\ proc[p].op = "read_pwm" => quirk.board = "win_max_2"
    /\ proc[p].at - proc[p].seen < HZ

\* caller p has the value of its read
Returned(p) == proc[p].pc = "ret" /\ proc[p].err = 0

\* the part of C5 on one read: less than HZ after the last refresh it goes to
\* the cached value and makes no register access
C5_NoRegisterAccess ==
    \A p \in Callers :
       Fresh(p) =>
          /\ proc[p].pc \in {"rpm_load", "pwm_load", "ret"}
          /\ proc[p].e = "none" /\ ~proc[p].io
          /\ proc[p].pc = "ret" => proc[p].err = 0

\* C5 (SpecReads): a read-RPM (any board) or read-PWM (win-max-2) made less
\* than HZ after the last refresh returns the cached value with no register
\* access, so that two such reads of one quantity inside the interval of one
\* refresh return the same value, whatever the hardware did between them
C5_CachedWithinInterval ==
    /\ C5_NoRegisterAccess
    /\ \A p, q \in Callers :
          ( /\ Fresh(p) /\ Returned(p)
            /\ Fresh(q) /\ Returned(q)
            /\ proc[p].op = proc[q].op
            /\ proc[p].seen = proc[q].seen )
          => proc[p].out = proc[q].out

\* C6: read-RPM and the cached read-PWM make the uncached read whenever
\* jiffies - lastRefresh >= HZ, the first read after attach and a read exactly
\* one interval after the last refresh included
C6_RefreshWheneverIntervalElapsed ==
    [][\A p \in Callers :
          /\ ( /\ Enters(p, "read_rpm")
               /\ jiffies - gpd_driver_priv.fan_speed_last_update >= HZ )
             => proc'[p].e = "lock"
          /\ ( /\ Enters(p, "read_pwm") /\ quirk.board = "win_max_2"
               /\ jiffies - gpd_driver_priv.read_pwm_last_update >= HZ )
             => proc'[p].e = "lock"
      ]_vars

\* caller p is between the age test of the RPM cache and its timestamp
InRpmRefresh(p) ==
    proc[p].op = "read_rpm" /\ proc[p].pc \notin {"rpm_load", "ret"}

\* caller p is between the age test of the PWM cache and its timestamp
InPwmRefresh(p) ==
    proc[p].op = "read_pwm" /\ proc[p].pc \in {"pwm_unc", "pwm_stamp"}

\* caller p is in the uncached read of a refresh
InUncachedRead(p) ==
    \/ InRpmRefresh(p) /\ proc[p].pc # "rpm_stamp"
    \/ InPwmRefresh(p) /\ proc[p].pc # "pwm_stamp"

\* callers p and q started their uncached reads less than HZ apart
StartedTooClose(p, q) ==
    /\ proc[p].at - proc[q].at < HZ
    /\ proc[q].at - proc[p].at < HZ

\* C7: however the callers poll, two uncached reads of one quantity are never
\* started less than HZ apart, and the test-then-update of a cache is not
\* torn: no two callers are between the age test and the timestamp of one
\* cache together
C7_PollingRateBounded ==
    \A p, q \in Callers :
       p # q =>
          /\ (proc[p].op = proc[q].op /\ InUncachedRead(p) /\ InUncachedRead(q))
                => ~StartedTooClose(p, q)
          /\ ~(InRpmRefresh(p) /\ InRpmRefresh(q))
          /\ ~(InPwmRefresh(p) /\ InPwmRefresh(q))

\* the labels of a cached read after its store in the cache
StoredLabels == {"rpm_stamp", "rpm_load", "pwm_stamp", "pwm_load"}

\* C8: when the uncached read of read-RPM or read-PWM fails, the call returns
\* that error as it is, and no step of the call has touched the driver state:
\* a cached read changes the driver state only in the store and the timestamp
\* that follow a successful read, after which it returns success
C8_FailedRefreshLeavesState ==
    [][\A p \in Callers :
          LET f == proc[p]
              g == proc'[p]
          IN (f.op \in CachedReads /\ g # f) =>
                /\ (g.pc = "ret" /\ g.err < 0) =>
                      /\ f.pc \notin StoredLabels
                      /\ g.err = -EINTR
                      /\ UNCHANGED gpd_driver_priv
                /\ (g.pc \notin StoredLabels /\ f.pc \notin StoredLabels) =>
                      UNCHANGED gpd_driver_priv
                /\ (f.pc \in StoredLabels /\ g.pc = "ret") => g.err = 0
      ]_vars

\* a read-RPM has returned -EINTR
C8_Witness ==
    \E p \in Callers :
       /\ proc[p].op = "read_rpm" /\ proc[p].pc = "ret"
       /\ proc[p].err = -EINTR

\* caller p is in, or at the mutex of, a write of v-bearing frame to the PWM
\* register
WritesPwmRegister(f) ==
    f.e # "none" /\ f.isw /\ f.off = quirk.pwm_write

\* C9: every value written to the PWM register by write-PWM, set-mode or
\* remove lies in 0..pwm_max, 0 being written only by set-mode(Automatic)
\* (remove's included) on win-mini and win4; and pwm_value is always in 0..255
C9_RawPwmInRange ==
    /\ gpd_driver_priv.pwm_value \in 0..255
    /\ \A p \in Callers :
          LET f == proc[p] IN
          WritesPwmRegister(f) =>
             /\ f.op \in {"write_pwm", "set_enable", "remove"}
             /\ f.wv \in 0..quirk.pwm_max
             /\ f.wv = 0 =>
                   /\ quirk.board # "win_max_2"
                   /\ f.op \in {"set_enable", "remove"}
                   /\ f.en = AUTOMATIC

\* write-PWM(256) is writing pwm_max, the duty stored clamped to 255
C9_Witness ==
    \E p \in Callers :
       /\ proc[p].op = "write_pwm" /\ proc[p].arg = 256
       /\ proc[p].e = "hi" /\ proc[p].wv = quirk.pwm_max
       /\ gpd_driver_priv.pwm_value = 255

\* the call of gpd_generic_write_pwm in the scaling runs
ScaleFrame == proc[1]

\* val * (pwm_max - 1) / 255 + 1, truncated
RawFor(val) == (val * (quirk.pwm_max - 1)) \div 255 + 1

\* C10 as stated (SpecScale): raw = val * (pwm_max - 1) / 255 + 1, 0 -> 1,
\* 255 -> pwm_max, and strictly monotonic: a larger val gives a larger raw
C10_StrictlyMonotonic ==
    ScaleFrame.op = "write_pwm" =>
       /\ ScaleFrame.wv = RawFor(ScaleFrame.arg)
       /\ \A v \in 0..PWM_MAX_DUTY :
             ScaleFrame.arg < v => ScaleFrame.wv < RawFor(v)

\* C10 amended (SpecScale): raw = val * (pwm_max - 1) / 255 + 1, truncated;
\* 0 -> 1, 255 -> pwm_max, and monotonic: a larger val never gives a smaller
\* raw (several val share one raw)
C10_Monotonic ==
    ScaleFrame.op = "write_pwm" =>
       /\ ScaleFrame.wv = RawFor(ScaleFrame.arg)
       /\ ScaleFrame.isw /\ ScaleFrame.off = quirk.pwm_write
       /\ ScaleFrame.arg = 0 => ScaleFrame.wv = 1
       /\ ScaleFrame.arg = 255 => ScaleFrame.wv = quirk.pwm_max
       /\ \A v \in 0..PWM_MAX_DUTY :
             ScaleFrame.arg < v => ScaleFrame.wv <= RawFor(v)

\* the call with duty 255 on win4: raw 127
C10_Witness ==
    /\ quirk.board = "win4_6800u"
    /\ ScaleFrame.op = "write_pwm" /\ ScaleFrame.arg = 255
    /\ ScaleFrame.wv = 127

\* C11 (SpecPwmRead): on win-max-2, whatever byte raw the refresh reads from
\* the PWM register, read-PWM returns raw * 255 / pwm_max, a value in 0..255
C11_ReadPwmScaling ==
    [][\A p \in Callers :
          /\ ( /\ proc[p].op = "read_pwm" /\ proc[p].pc = "pwm_unc"
               /\ proc[p].ret = 0 /\ proc'[p].pc = "pwm_stamp" )
             => /\ gpd_driver_priv'.read_pwm_cached
                     = (proc[p].rd * 255) \div quirk.pwm_max
                /\ gpd_driver_priv'.read_pwm_cached \in 0..255
          /\ (proc[p].pc = "pwm_load" /\ proc'[p].pc = "ret")
             => /\ proc'[p].err = 0
                /\ proc'[p].out = gpd_driver_priv.read_pwm_cached
                /\ proc'[p].out \in 0..255
      ]_vars

\* caller p takes, in this step, the step that follows its label k of op
StepsFrom(p, op, k) == At(p, op, k) /\ proc'[p] # proc[p]

\* caller p starts, in this step, a write of v to the register off
StartsWrite(p, off, v) ==
    /\ proc'[p].e # "none" /\ proc'[p].isw
    /\ proc'[p].off = off /\ proc'[p].wv = v

\* C12: on win4, RPM read as 0 and chip id 0x55: when the read of the chip
\* version 0x1060 succeeds with v the driver writes v | 0x80 to 0x1060, once,
\* and when it fails it writes nothing; in either case, and whatever the
\* write does, the read returns RPM 0 and no error
C12_Win4StallRecovery ==
    [][\A p \in Callers :
          /\ StepsFrom(p, "read_rpm", "w4_ver") =>
                IF proc[p].ret = 0
                THEN StartsWrite(p, CHIP_VER_REG, OrBit80(proc[p].rd))
                ELSE /\ proc'[p].e = "none"
                     /\ proc'[p].pc = "rpm_stamp"
                     /\ gpd_driver_priv'.fan_speed_cached = 0
          /\ StepsFrom(p, "read_rpm", "w4_ver_w") =>
                /\ proc'[p].e = "none"
                /\ proc'[p].pc = "rpm_stamp"
                /\ gpd_driver_priv'.fan_speed_cached = 0
      ]_vars

\* the callbacks whose register sequences end at the first failure
AbortingOps == {"read_rpm", "read_pwm", "write_pwm", "set_enable"}

\* the labels of the win4 re-initialisation, whose failures are discarded
ReinitLabels == {"w4_id", "w4_ver", "w4_ver_w"}

\* caller p is back from a register access that failed
AccessFailed(p) == proc[p].e = "none" /\ proc[p].ret # 0

\* C13: in the register sequences of read-RPM (the PWMCTR fix-ups of win4 and
\* win-max-2 included), read-PWM, write-PWM and set-mode, the step after a
\* failed register access returns that error, with no further register
\* access; only the win4 re-initialisation accesses are exempt
C13_SequenceAbortsOnError ==
    [][\A p \in Callers :
          ( /\ proc[p].op \in AbortingOps
            /\ proc[p].pc \notin ReinitLabels
            /\ AccessFailed(p)
            /\ proc'[p] # proc[p] )
          => /\ proc'[p].pc = "ret"
             /\ proc'[p].err = proc[p].ret
             /\ proc'[p].e = "none"
      ]_vars

\* C14: set-mode with a valid mode stores it before the board's handler makes
\* any register access, and a failing handler does not roll it back: the call
\* returns the error with the stored mode left as it is, and a read of the
\* mode returns the stored mode
C14_ModeNotRolledBack ==
    [][\A p \in Callers :
          /\ (Enters(p, "set_enable") /\ proc'[p].arg \in {0, 1, 2}) =>
                /\ gpd_driver_priv'.pwm_enable = proc'[p].arg
                /\ proc'[p].e = "none" /\ ~proc'[p].io
                /\ UNCHANGED <<ecram, gpd_fan_lock>>
          /\ ( /\ proc[p].op = "set_enable" /\ proc[p].pc # "ret"
               /\ proc'[p].pc = "ret" /\ proc'[p].err # 0 ) =>
                /\ proc'[p].err = proc[p].ret
                /\ UNCHANGED gpd_driver_priv
          /\ Enters(p, "read_enable") =>
                /\ proc'[p].pc = "ret" /\ proc'[p].err = 0
                /\ proc'[p].out = gpd_driver_priv.pwm_enable
      ]_vars

\* set-mode(Manual) has returned -EINTR and the stored mode is Manual
C14_Witness ==
    /\ gpd_driver_priv.pwm_enable = MANUAL
    /\ \E p \in Callers :
          /\ proc[p].op = "set_enable" /\ proc[p].arg = MANUAL
          /\ proc[p].pc = "ret" /\ proc[p].err = -EINTR
          /\ \A q \in Callers \ {p} : proc[q].op \notin {"set_enable", "remove"}

\* caller p is, in this step, interrupted at the mutex of a register access
Interrupted(p) == proc'[p] # proc[p] /\ proc'[p].ret = -EINTR

\* C15 (SpecPort): a caller interrupted while it waits for the mutex gets
\* -EINTR from gpd_ecram_read / gpd_ecram_write, has made no port I/O for
\* that access, and leaves the mutex with the caller that holds it; the EC
\* registers keep what earlier accesses wrote
C15_InterruptedLockWait ==
    [][\A p \in Callers :
          /\ Interrupted(p) =>
                /\ proc[p].e = "lock" /\ proc'[p].e = "none"
                /\ proc'[p].io = proc[p].io
                /\ gpd_fan_lock \in Callers \ {p}
                /\ UNCHANGED <<gpd_fan_lock, ecram, ecHigh, ecLow>>
          /\ (AccessFailed(p) /\ proc'[p].pc = "ret") =>
                /\ proc'[p].err = -EINTR
                /\ ~proc'[p].io
      ]_vars

\* a caller was interrupted at the mutex while the other, holding it, is
\* about to transfer its data byte
C15_Witness ==
    \E p, q \in Callers :
       /\ proc[p].e = "none" /\ proc[p].ret = -EINTR /\ ~proc[p].io
       /\ proc[q].e = "data" /\ gpd_fan_lock = q

\* the register the board's set-mode(Automatic) writes 0 to
AutomaticRegister ==
    IF quirk.board = "win_max_2"
    THEN quirk.manual_control_enable
    ELSE quirk.pwm_write

\* C16: remove, whatever the mode was and on every board, stores Automatic
\* and calls the board's set-mode handler with Automatic, once: one write of
\* 0 to the board's hand-over register; whether that write succeeds or is
\* interrupted, remove returns 0
C16_TeardownHandsOver ==
    [][\A p \in Callers :
          /\ Enters(p, "remove") =>
                /\ gpd_driver_priv'.pwm_enable = AUTOMATIC
                /\ proc'[p].en = AUTOMATIC
                /\ proc'[p].pc = "se_done"
                /\ proc'[p].e = "lock"
                /\ proc'[p].isw /\ proc'[p].off = AutomaticRegister
                /\ proc'[p].wv = 0
          /\ StepsFrom(p, "remove", "se_done") =>
                /\ proc'[p].pc = "ret" /\ proc'[p].e = "none"
                /\ proc'[p].err = 0
                /\ UNCHANGED <<gpd_driver_priv, ecram>>
          /\ (proc[p].op = "remove" /\ proc[p].e = "lock" /\ proc'[p] # proc[p])
             => proc'[p].pc = "se_done"
      ]_vars

\* remove has returned 0 although its write was interrupted; the mode had
\* been set to Disabled by the caller that held the mutex
C16_Witness ==
    \E p, q \in Callers :
       /\ proc[p].op = "remove" /\ proc[p].pc = "ret"
       /\ proc[p].err = 0 /\ ~proc[p].io
       /\ proc[q].op = "set_enable" /\ proc[q].arg = DISABLE
       /\ gpd_driver_priv.pwm_enable = AUTOMATIC

\* C17 (SpecLoad): when gpd_fan_init ends with no profile selected (the
\* parameter names no board and dmi_first_match finds no entry) it has
\* returned -ENODEV, gpd_driver_priv is as it was before init, no device is
\* bound and no register access is made
C17_NoMatchingDevice ==
    (proc[1].op = "init" /\ gpd_driver_priv.quirk = NULL) =>
       /\ proc[1].pc = "ret" /\ proc[1].err = -ENODEV
       /\ gpd_driver_priv = ZeroPriv
       /\ ~attached
       /\ gpd_fan_lock = 0
       /\ \A p \in Callers : proc[p].e = "none" /\ ~proc[p].io

\* caller p calls, in this step, gpd_ecram_write(off, v) and will go on at k
\* (the call takes the mutex or is interrupted at it)
CallsWrite(p, off, v, k) ==
    /\ proc'[p].pc = k /\ proc'[p].isw
    /\ proc'[p].off = off /\ proc'[p].wv = v
    /\ proc'[p].e # "none" \/ proc'[p].ret = -EINTR

\* C18: on win-max-2 the set-mode handler called with Disabled writes the
\* raw value of duty 255 to the PWM register and then 1 to
\* manual_control_enable; with Manual, the raw value of pwm_value and then 1;
\* the second write is left out when the first fails; with Automatic it
\* writes 0 to manual_control_enable and nothing to the PWM register
C18_Wm2SetModeOrder ==
    [][\A p \in Callers :
          quirk.board = "win_max_2" =>
             /\ StepsFrom(p, "set_enable", "se_call") =>
                   CASE proc'[p].en = DISABLE ->
                           CallsWrite(p, quirk.pwm_write, RawFor(255), "se_wm2")
                     [] proc'[p].en = MANUAL ->
                           CallsWrite(p, quirk.pwm_write,
                                      RawFor(gpd_driver_priv.pwm_value), "se_wm2")
                     [] proc'[p].en = AUTOMATIC ->
                           CallsWrite(p, quirk.manual_control_enable, 0, "se_done")
             /\ StepsFrom(p, "set_enable", "se_wm2") =>
                   IF proc[p].ret # 0
                   THEN /\ proc'[p].pc = "ret" /\ proc'[p].e = "none"
                        /\ proc'[p].err = proc[p].ret
                   ELSE CallsWrite(p, quirk.manual_control_enable, 1, "se_done")
             /\ StepsFrom(p, "set_enable", "se_done") =>
                   /\ proc'[p].pc = "ret" /\ proc'[p].e = "none"
                   /\ proc'[p].err = proc[p].ret
      ]_vars

\* win-max-2, set-mode(Manual): the PWM register holds the raw value of
\* pwm_value and the write of 1 to manual_control_enable is under way
C18_Witness ==
    /\ quirk.board = "win_max_2"
    /\ \E p \in Callers :
          /\ proc[p].op = "set_enable" /\ proc[p].en = MANUAL
          /\ proc[p].pc = "se_done" /\ proc[p].e = "hi"
          /\ proc[p].off = quirk.manual_control_enable /\ proc[p].wv = 1
          /\ ecram[quirk.pwm_write] = RawFor(gpd_driver_priv.pwm_value)

\* caller p has returned from a set-mode(Automatic) whose register write
\* was made
HandedOver(p) ==
    /\ proc[p].op = "set_enable" /\ proc[p].pc = "ret"
    /\ proc[p].arg = AUTOMATIC /\ proc[p].en = AUTOMATIC
    /\ proc[p].err = 0 /\ proc[p].io

\* the callbacks that are to leave the hand-over alone
HandOverKeepers == {"write_pwm", "read_rpm", "read_pwm"}

\* besides the set-mode of p, the only callback invoked so far is the one
\* caller q is in, and it is none that sets the mode
OnlyKeeperSince(q) ==
    \/ proc[q].op = "idle" /\ MaxCalls - calls = 1
    \/ proc[q].op \in HandOverKeepers /\ MaxCalls - calls = 2

\* C19: after a set-mode(Automatic) whose write succeeded, and with no
\* set-mode since, write-PWM, read-RPM and read-PWM leave the fan with the
\* EC: the PWM register that holds 0 on win-mini and win4, and
\* manual_control_enable that holds 0 on win-max-2, keep holding 0
C19_AutomaticPersists ==
    [][\A p, q \in Callers :
          (p # q /\ HandedOver(p) /\ OnlyKeeperSince(q)
                 /\ ecram[AutomaticRegister] = 0) =>
             ecram'[AutomaticRegister] = 0]_vars

\* caller p has returned from a set-mode(Disabled) all of whose register
\* writes were made
DisabledDone(p) ==
    /\ proc[p].op = "set_enable" /\ proc[p].pc = "ret"
    /\ proc[p].arg = DISABLE /\ proc[p].en = DISABLE
    /\ proc[p].err = 0 /\ proc[p].io

\* besides the set-mode of p, the only callback invoked so far is a
\* write-PWM of caller q, which has returned
OnlyWritePwmReturned(q) ==
    \/ proc[q].op = "idle" /\ MaxCalls - calls = 1
    \/ proc[q].op = "write_pwm" /\ proc[q].pc = "ret" /\ MaxCalls - calls = 2

\* C20: on win-mini and win-max-2, once a set-mode(Disabled) has completed
\* successfully, no set-mode has started since and every write-PWM has
\* returned, the PWM register holds the raw value pwm_max
C20_DisabledHoldsMaxCooling ==
    \A p, q \in Callers :
       (/\ p # q
        /\ quirk.board \in {"win_mini", "win_max_2"}
        /\ DisabledDone(p)
        /\ OnlyWritePwmReturned(q)) =>
          ecram[quirk.pwm_write] = quirk.pwm_max

====
